---------------------------- MODULE Spec2Model ----------------------------
(***************************************************************************)
(* School portal frontend: the chat client of the main script              *)
(* (toast notifications, Send, the poll cycle, Stop) and the server it     *)
(* talks to, as far as its JSON contracts say; the assignment form of the  *)
(* same script; the drawing canvas; the service worker.                    *)
(*                                                                         *)
(* A request is in flight in two phases: "pending" until the server has    *)
(* answered it, then carrying its answer until the awaiting handler runs.  *)
(* A handler runs to its next await in one step (the browser's event loop  *)
(* is single-threaded).                                                    *)
(*                                                                         *)
(* Strings are sequences of one-character strings.  A timestamp is a       *)
(* positive integer (the server assigns them in increasing order); the     *)
(* empty string '' of the cursor `since` is 0.  A timer handle is a        *)
(* positive integer, as setInterval returns; null is 0.                    *)
(***************************************************************************)
EXTENDS Integers, Sequences, FiniteSets, TLC

\* ------------------------------------------------------------------ bounds
\* events of a run (calls of startPolling, submit events, poll requests and
\* stored messages together)
MaxJoint == 3    \* Send and the poll cycle together
MaxPolling == 4  \* the poll cycle alone, the server answering anything
MaxExact == 5    \* the poll cycle alone, the server keeping to its contract
MaxForm == 3     \* Send and the assignment form
MaxCanvas == 4   \* events and calls of the drawing canvas
MaxWorker == 6   \* events of the service worker and windows opened
MaxEcho == 4     \* Send and the poll cycle, a poll echoing a sent message

\* ------------------------------------------------------- small input sets
TeacherIds == {"t1"}
WhiteSpace == {" "}
\* values the user types into #message-input
Inputs == { <<>>, <<" ">>, <<"a">>, <<" ", "<", " ">> }
\* texts of the messages that reach the server from elsewhere
OtherTexts == { <<"&">> }
\* server-supplied error strings of a success:false response ('' when absent)
ErrorStrings == { "", "Blocked" }
Callbacks == { "null", "ok", "throws" }

\* ---------------------------------------------------------- the page (DOM)
\* The chat page contains #notification-toast, #message-form and
\* #messages-container; the guards that test them are kept in the operators.
PageHasToast == TRUE
PageHasChat == TRUE

VARIABLES
    pollInterval,   \* the global handle: 0 (null) or the last timer started
    active,         \* the browser's timer table: handles not yet cleared
    nStarts,        \* handles handed out by setInterval so far
    closure,        \* per timer: the closure of startPolling [teacherId, since]
    listeners,      \* submit listeners of the form: the teacherId each captured
    input,          \* value of #message-input
    transcript,     \* children of #messages-container appended by addMessage
    toast,          \* content of the toast element (title, body, type)
    toastCount,     \* calls of toast.show()
    callback,       \* window.onNewMessageReceived: "null", "ok" or "throws"
    cbCalls,        \* arguments of the invocations of the callback, in order
    sends,          \* /api/send_message requests in flight
    nSends,         \* /api/send_message requests issued so far
    nSubmits,       \* submit events so far
    polls,          \* /api/poll_messages requests in flight
    nPolls,         \* poll requests issued so far
    serverLog,      \* the conversation as the server stores it
    hwm,            \* per timer: the largest value `since` has held
    overlapped,     \* some tick fired while a request of its timer was in flight
    logged,         \* calls of console.error('Polling error:', ...)
    emptyState      \* the page still shows the #empty-state element

\* the assignment page
VARIABLES
    formListeners,  \* calls of initAssignmentForm: the assignmentId each captured
    textareas,      \* values of the .answer-input textareas, in document order
    charCount,      \* per textarea: the number its .char-count shows
    confirmModal,   \* #confirm-modal is shown
    loadingModal,   \* #loading-modal: [shown, text of #loading-text]
    feedback,       \* #feedback-section: [shown, innerHTML of #ai-feedback-content]
    redirects,      \* timeouts set by submitAssignment: the submission_id of each
    location,       \* 0 while the page is loaded, else the submission navigated to
    reqs,           \* /assignments/... requests in flight
    nReqs           \* /assignments/... requests issued so far

formVars == << formListeners, textareas, charCount, confirmModal, loadingModal,
               feedback, redirects, location, reqs, nReqs >>

\* the drawing canvas (class DrawingCanvas and its <canvas> element)
VARIABLES
    constructed,    \* new DrawingCanvas(...) has run
    canvasSize,     \* canvas.width and canvas.height
    filled,         \* the top-left rectangle painted by fillRect (the rest of
                    \* the surface is transparent where no ink is)
    ink,            \* the pixels painted by stroke(): [x, y, colour]
    ctx,            \* the 2d context: lineWidth, strokeStyle, fillStyle
    options,        \* this.options: lineColor, lineWidth
    isDrawing,      \* this.isDrawing
    lastPoint,      \* this.lastPoint: << >> (null) or << x, y >>
    nSegments,      \* calls of drawLine so far
    lastSegment,    \* the last call of drawLine: from, to and the context used
    exported,       \* what the last call of getImageData returned
    nOps,           \* events and method calls handled so far
    lastOp          \* the last of them: its kind, number of touches and force

canvasVars == << constructed, canvasSize, filled, ink, ctx, options, isDrawing,
                 lastPoint, nSegments, lastSegment, exported, nOps, lastOp >>

\* the service worker
VARIABLES
    swState,        \* "parsed", "installed", "activated" or "redundant"
    cacheStorage,   \* caches: for each cache name the URLs of its entries
    windows,        \* the window clients of the origin, in matchAll order:
                    \* [url, inScope, navigations, focuses]
    notifications,  \* the notifications shown and not closed
    lastFetch,      \* the last fetch event: request, respondWith called, answer
    nSw,            \* events of the service worker (and windows opened) so far
    lastSw          \* the last event: its kind, action and notification

swVars == << swState, cacheStorage, windows, notifications, lastFetch, nSw,
             lastSw >>

\* the chat page without its toast element
chatVars == << pollInterval, active, nStarts, closure, listeners, input,
               transcript, callback, cbCalls, sends, nSends, nSubmits, polls,
               nPolls, serverLog, hwm, overlapped, logged, emptyState >>

vars == << pollInterval, active, nStarts, closure, listeners, input, transcript,
           toast, toastCount, callback, cbCalls, sends, nSends, nSubmits, polls,
           nPolls, serverLog, hwm, overlapped, logged, emptyState,
           formVars, canvasVars, swVars >>

\* the events counted against the bound of a specification
Events ==
    nStarts + nSubmits + nPolls + Len(serverLog) + Len(formListeners) + nReqs
        + nOps + nSw

\* ------------------------------------------------------------ pure helpers
RECURSIVE TrimStart(_)
TrimStart(s) ==
    IF s # <<>> /\ Head(s) \in WhiteSpace THEN TrimStart(Tail(s)) ELSE s

RECURSIVE TrimEnd(_)
TrimEnd(s) ==
    IF s # <<>> /\ s[Len(s)] \in WhiteSpace
    THEN TrimEnd(SubSeq(s, 1, Len(s) - 1))
    ELSE s

\* String.prototype.trim
Trim(s) == TrimEnd(TrimStart(s))

\* escapeHtml: textContent -> innerHTML serialisation of a text node
EscapeChar(c) ==
    CASE c = "&" -> <<"&", "a", "m", "p", ";">>
      [] c = "<" -> <<"&", "l", "t", ";">>
      [] c = ">" -> <<"&", "g", "t", ";">>
      [] OTHER -> <<c>>

RECURSIVE escapeHtml(_)
escapeHtml(text) ==
    IF text = <<>> THEN <<>> ELSE EscapeChar(Head(text)) \o escapeHtml(Tail(text))

StartsWith(s, p) == Len(s) >= Len(p) /\ SubSeq(s, 1, Len(p)) = p
Drop(s, n) == SubSeq(s, n + 1, Len(s))

\* the text a browser shows for the markup assigned to innerHTML
RECURSIVE RenderedText(_)
RenderedText(html) ==
    IF html = <<>> THEN <<>>
    ELSE IF StartsWith(html, <<"&", "a", "m", "p", ";">>)
         THEN <<"&">> \o RenderedText(Drop(html, 5))
    ELSE IF StartsWith(html, <<"&", "l", "t", ";">>)
         THEN <<"<">> \o RenderedText(Drop(html, 4))
    ELSE IF StartsWith(html, <<"&", "g", "t", ";">>)
         THEN <<">">> \o RenderedText(Drop(html, 4))
    ELSE <<Head(html)>> \o RenderedText(Tail(html))

\* addMessage(text, isSent, timestamp): the bubble appended to the container.
\* `ts` is the timestamp argument (0 when omitted: the bubble shows "now").
Bubble(text, isSent, timestamp) ==
    [ cls |-> IF isSent THEN "sent" ELSE "received",
      html |-> escapeHtml(text),
      ts |-> timestamp ]

addMessage(tr, text, isSent, timestamp) ==
    IF ~PageHasChat THEN tr ELSE Append(tr, Bubble(text, isSent, timestamp))

\* showToast(title, message, type): [toast, toastCount] after the call
NoToast == [ title |-> "", body |-> "", type |-> "" ]

showToast(cur, title, message, type) ==
    IF ~PageHasToast THEN cur
    ELSE [ toast |-> [ title |-> title, body |-> message, type |-> type ],
           count |-> cur.count + 1 ]

\* faulty variant: the server's error string is never used
OrElse_Fallback(value, fallback) == fallback

\* data.error || fallback
OrElse(value, fallback) == IF value = "" THEN fallback ELSE value

Max(a, b) == IF a >= b THEN a ELSE b

\* ------------------------------------------------------------------ server
\* A stored message {text, from_student, timestamp}
Msg(text, fromStudent, ts) ==
    [ text |-> text, from_student |-> fromStudent, timestamp |-> ts ]

\* the next timestamp the server assigns
NextTs == Len(serverLog) + 1

RECURSIVE SelectAfter(_, _)
SelectAfter(log, since) ==
    IF log = <<>> THEN <<>>
    ELSE IF Head(log).timestamp > since
         THEN <<Head(log)>> \o SelectAfter(Tail(log), since)
         ELSE SelectAfter(Tail(log), since)

\* GET /api/poll_messages/{teacherId}?since=<ts>: the messages newer than since
\* (all of them when the parameter is absent), oldest first
ExactPollResult(url) ==
    SelectAfter(serverLog, IF url.query = <<>> THEN 0 ELSE url.query[1])

\* every array of distinct stored messages, in any order: what a server that
\* does not keep to the contract (or sorts differently) may return
AnyPollResult ==
    { q \in UNION { [1..n -> 1..Len(serverLog)] : n \in 0..Len(serverLog) } :
        \A i, j \in DOMAIN q : i # j => q[i] # q[j] }

ArrayOf(q) == [ i \in DOMAIN q |-> serverLog[q[i]] ]

\* ------------------------------------------------------------- chat client
\* faulty variant: the since parameter is always sent
PollUrl_AlwaysSince(teacherId, since) ==
    [ teacherId |-> teacherId, query |-> << since >> ]

PollUrl(teacherId, since) ==
    [ teacherId |-> teacherId,
      query |-> IF since # 0 THEN <<since>> ELSE <<>> ]

\* startPolling(teacherId, lastTime): since = lastTime || '' and
\* pollInterval = setInterval(...)
startPolling(teacherId, lastTime) ==
    /\ nStarts' = nStarts + 1
    /\ closure' = Append(closure, [ teacherId |-> teacherId, since |-> lastTime ])
    /\ hwm' = Append(hwm, lastTime)
    /\ active' = active \cup { nStarts + 1 }
    /\ pollInterval' = nStarts + 1

\* initChat(teacherId, lastTime): registers the submit listener, then starts
\* polling
initChat(teacherId, lastTime) ==
    /\ PageHasChat
    /\ listeners' = Append(listeners, teacherId)
    /\ startPolling(teacherId, lastTime)
    /\ UNCHANGED << input, transcript, toast, toastCount, callback, cbCalls,
                    sends, nSends, nSubmits, polls, nPolls, serverLog, overlapped,
                    logged, emptyState,
                    formVars, canvasVars, swVars >>

\* a direct call of the global function startPolling
StartPollingCall(teacherId, lastTime) ==
    /\ startPolling(teacherId, lastTime)
    /\ UNCHANGED << listeners, input, transcript, toast, toastCount, callback,
                    cbCalls, sends, nSends, nSubmits, polls, nPolls, serverLog,
                    overlapped, logged, emptyState,
                    formVars, canvasVars, swVars >>

\* stopPolling(), also the beforeunload listener
stopPolling ==
    /\ IF pollInterval # 0
       THEN /\ active' = active \ { pollInterval }
            /\ pollInterval' = 0
       ELSE UNCHANGED << active, pollInterval >>
    /\ UNCHANGED << nStarts, closure, listeners, input, transcript, toast,
                    toastCount, callback, cbCalls, sends, nSends, nSubmits, polls,
                    nPolls, serverLog, hwm, overlapped, logged, emptyState,
                    formVars, canvasVars, swVars >>

\* typing into #message-input
TypeInput(v) ==
    /\ input # v
    /\ input' = v
    /\ UNCHANGED << pollInterval, active, nStarts, closure, listeners, transcript,
                    toast, toastCount, callback, cbCalls, sends, nSends, nSubmits,
                    polls, nPolls, serverLog, hwm, overlapped, logged, emptyState,
                    formVars, canvasVars, swVars >>

\* the page script assigns window.onNewMessageReceived
SetCallback(c) ==
    /\ callback # c
    /\ callback' = c
    /\ UNCHANGED << pollInterval, active, nStarts, closure, listeners, input,
                    transcript, toast, toastCount, cbCalls, sends, nSends, nSubmits,
                    polls, nPolls, serverLog, hwm, overlapped, logged, emptyState,
                    formVars, canvasVars, swVars >>

\* ---- Send: the submit listener up to its first await
\* faulty variant: the listener without its `if (!message) return`
SendRequests_NoGuard(message) ==
    { [ id |-> nSends + i, teacherId |-> listeners[i], message |-> message,
        resp |-> [ kind |-> "pending" ] ] : i \in DOMAIN listeners }

\* the request one listener issues for the trimmed text: none when it is empty
SendRequests(message) ==
    IF message = << >> THEN {}
    ELSE { [ id |-> nSends + i, teacherId |-> listeners[i], message |-> message,
             resp |-> [ kind |-> "pending" ] ] : i \in DOMAIN listeners }

\* a submit event of #message-form: every registered listener runs
Submit ==
    /\ listeners # << >>
    /\ nSubmits' = nSubmits + 1
    /\ LET message == Trim(input) IN
         /\ sends' = sends \cup SendRequests(message)
         /\ nSends' = nSends + Cardinality(SendRequests(message))
    /\ UNCHANGED << pollInterval, active, nStarts, closure, listeners, input,
                    transcript, toast, toastCount, callback, cbCalls, polls, nPolls,
                    serverLog, hwm, overlapped, logged, emptyState,
                    formVars, canvasVars, swVars >>

\* POST /api/send_message answered: stored and success, refused with an
\* optional error string, or no JSON answer at all
SendOutcomes ==
    { [ kind |-> "ok" ], [ kind |-> "error" ] }
        \cup { [ kind |-> "fail", error |-> e ] : e \in ErrorStrings }

ServerHandleSend(s, r) ==
    /\ s \in sends /\ s.resp.kind = "pending"
    /\ sends' = (sends \ { s }) \cup { [ s EXCEPT !.resp = r ] }
    /\ serverLog' = IF r.kind = "ok"
                    THEN Append(serverLog, Msg(s.message, TRUE, NextTs))
                    ELSE serverLog
    /\ UNCHANGED << pollInterval, active, nStarts, closure, listeners, input,
                    transcript, toast, toastCount, callback, cbCalls, nSends,
                    nSubmits, polls, nPolls, hwm, overlapped, logged, emptyState,
                    formVars, canvasVars, swVars >>

\* faulty variant: the bubble is rendered whatever the response says
SendResult_RenderAlways(s) ==
    LET cur == [ toast |-> toast, count |-> toastCount ] IN
    CASE s.resp.kind = "ok" ->
           [ transcript |-> addMessage(transcript, s.message, TRUE, 0),
             input |-> << >>, t |-> cur ]
      [] s.resp.kind = "fail" ->
           [ transcript |-> addMessage(transcript, s.message, TRUE, 0),
             input |-> input,
             t |-> showToast(cur, "Error",
                             OrElse(s.resp.error, "Failed to send message"),
                             "danger") ]
      [] OTHER ->
           [ transcript |-> addMessage(transcript, s.message, TRUE, 0),
             input |-> input,
             t |-> showToast(cur, "Error", "Failed to send message", "danger") ]

\* faulty variant: the input is cleared before the response is looked at
SendResult_ClearFirst(s) ==
    LET cur == [ toast |-> toast, count |-> toastCount ] IN
    CASE s.resp.kind = "ok" ->
           [ transcript |-> addMessage(transcript, s.message, TRUE, 0),
             input |-> << >>, t |-> cur ]
      [] s.resp.kind = "fail" ->
           [ transcript |-> transcript, input |-> << >>,
             t |-> showToast(cur, "Error",
                             OrElse(s.resp.error, "Failed to send message"),
                             "danger") ]
      [] OTHER ->
           [ transcript |-> transcript, input |-> << >>,
             t |-> showToast(cur, "Error", "Failed to send message", "danger") ]

\* the submit listener after its awaits: the page after the response
SendResult(s) ==
    LET cur == [ toast |-> toast, count |-> toastCount ] IN
    CASE s.resp.kind = "ok" ->
           [ transcript |-> addMessage(transcript, s.message, TRUE, 0),
             input |-> << >>, t |-> cur ]
      [] s.resp.kind = "fail" ->
           [ transcript |-> transcript, input |-> input,
             t |-> showToast(cur, "Error",
                             OrElse(s.resp.error, "Failed to send message"),
                             "danger") ]
      [] OTHER ->
           [ transcript |-> transcript, input |-> input,
             t |-> showToast(cur, "Error", "Failed to send message", "danger") ]

SendResponse(s) ==
    /\ s \in sends /\ s.resp.kind # "pending"
    /\ sends' = sends \ { s }
    /\ transcript' = SendResult(s).transcript
    /\ input' = SendResult(s).input
    /\ toast' = SendResult(s).t.toast
    /\ toastCount' = SendResult(s).t.count
    /\ emptyState' = (emptyState /\ s.resp.kind # "ok")
    /\ UNCHANGED << pollInterval, active, nStarts, closure, listeners, callback,
                    cbCalls, nSends, nSubmits, polls, nPolls, serverLog, hwm,
                    overlapped, logged,
                    formVars, canvasVars, swVars >>

\* ---- a message reaches the server from elsewhere: the counterpart writes
\* one, or the student sends one from another session
ServerStore(text, fromStudent) ==
    /\ serverLog' = Append(serverLog, Msg(text, fromStudent, NextTs))
    /\ UNCHANGED << pollInterval, active, nStarts, closure, listeners, input,
                    transcript, toast, toastCount, callback, cbCalls, sends, nSends,
                    nSubmits, polls, nPolls, hwm, overlapped, logged, emptyState,
                    formVars, canvasVars, swVars >>

\* ---- Poll cycle
\* the interval callback of timer t up to its first await: the request
PollRequest(t) ==
    [ id |-> nPolls + 1, timer |-> t,
      url |-> PollUrl(closure[t].teacherId, closure[t].since),
      resp |-> [ kind |-> "pending" ] ]

Tick(t) ==
    /\ t \in active
    /\ nPolls' = nPolls + 1
    /\ polls' = polls \cup { PollRequest(t) }
    /\ overlapped' = (overlapped \/ \E p \in polls : p.timer = t)
    /\ UNCHANGED << pollInterval, active, nStarts, closure, listeners, input,
                    transcript, toast, toastCount, callback, cbCalls, sends, nSends,
                    nSubmits, serverLog, hwm, logged, emptyState,
                    formVars, canvasVars, swVars >>

\* the server answers a poll request: r is the JSON body or a failure
ServerHandlePoll(p, r) ==
    /\ p \in polls /\ p.resp.kind = "pending"
    /\ polls' = (polls \ { p }) \cup { [ p EXCEPT !.resp = r ] }
    /\ UNCHANGED << pollInterval, active, nStarts, closure, listeners, input,
                    transcript, toast, toastCount, callback, cbCalls, sends, nSends,
                    nSubmits, nPolls, serverLog, hwm, overlapped, logged, emptyState,
                    formVars, canvasVars, swVars >>

\* faulty variant: the messages of the student are rendered as well
ForEachMessage_RenderAll(msgs, teacherId, st) ==
    LET RECURSIVE Go(_, _)
        Go(ms, cur) ==
            IF ms = << >> \/ cur.thrown THEN cur
            ELSE LET msg == Head(ms)
                     added == addMessage(cur.transcript, msg.text,
                                         msg.from_student, msg.timestamp)
                     called == ~msg.from_student /\ callback # "null"
                     calls == IF called
                              THEN Append(cur.cbCalls, << msg.text, teacherId >>)
                              ELSE cur.cbCalls
                     throws == called /\ callback = "throws"
                 IN Go(Tail(ms),
                       [ transcript |-> added,
                         since |-> IF throws THEN cur.since ELSE msg.timestamp,
                         cbCalls |-> calls,
                         thrown |-> throws ])
    IN Go(msgs, st)

\* faulty variant: the cursor keeps the largest timestamp seen
ForEachMessage_MaxSince(msgs, teacherId, st) ==
    LET RECURSIVE Go(_, _)
        Go(ms, cur) ==
            IF ms = << >> \/ cur.thrown THEN cur
            ELSE LET msg == Head(ms)
                     added == IF ~msg.from_student
                              THEN addMessage(cur.transcript, msg.text, FALSE,
                                              msg.timestamp)
                              ELSE cur.transcript
                     called == ~msg.from_student /\ callback # "null"
                     calls == IF called
                              THEN Append(cur.cbCalls, << msg.text, teacherId >>)
                              ELSE cur.cbCalls
                     throws == called /\ callback = "throws"
                 IN Go(Tail(ms),
                       [ transcript |-> added,
                         since |-> IF throws THEN cur.since
                                   ELSE Max(cur.since, msg.timestamp),
                         cbCalls |-> calls,
                         thrown |-> throws ])
    IN Go(msgs, st)

\* data.messages.forEach(...): st is [transcript, since, cbCalls, thrown]; an
\* exception of the callback leaves forEach and is caught by the tick's catch
RECURSIVE ForEachMessage(_, _, _)
ForEachMessage(msgs, teacherId, st) ==
    IF msgs = << >> \/ st.thrown THEN st
    ELSE LET msg == Head(msgs)
             added == IF ~msg.from_student
                      THEN addMessage(st.transcript, msg.text, FALSE, msg.timestamp)
                      ELSE st.transcript
             called == ~msg.from_student /\ callback # "null"
             calls == IF called
                      THEN Append(st.cbCalls, << msg.text, teacherId >>)
                      ELSE st.cbCalls
             throws == called /\ callback = "throws"
         IN ForEachMessage(Tail(msgs), teacherId,
                [ transcript |-> added,
                  since |-> IF throws THEN st.since ELSE msg.timestamp,
                  cbCalls |-> calls,
                  thrown |-> throws ])

\* data.messages && data.messages.length > 0 (a body without `messages` is
\* modelled as the empty array: the same branch)
HasMessages(resp) == resp.kind = "json" /\ Len(resp.messages) > 0

\* faulty variant: a response without messages resets the cursor to ''
PollResult_EmptyResets(p) ==
    LET st == [ transcript |-> transcript, since |-> closure[p.timer].since,
                cbCalls |-> cbCalls, thrown |-> FALSE ]
    IN IF p.resp.kind = "error" THEN [ st EXCEPT !.thrown = TRUE ]
       ELSE IF HasMessages(p.resp)
            THEN ForEachMessage(p.resp.messages, closure[p.timer].teacherId, st)
            ELSE [ st EXCEPT !.since = 0 ]

\* faulty variant: a failed tick resets the cursor to ''
PollResult_ResetOnError(p) ==
    LET st == [ transcript |-> transcript, since |-> closure[p.timer].since,
                cbCalls |-> cbCalls, thrown |-> FALSE ]
    IN IF p.resp.kind = "error" THEN [ st EXCEPT !.thrown = TRUE, !.since = 0 ]
       ELSE IF HasMessages(p.resp)
            THEN ForEachMessage(p.resp.messages, closure[p.timer].teacherId, st)
            ELSE st

\* the interval callback after its awaits: fetch or response.json() throws
\* (kind "error"), or the messages are processed; thrown: the catch is entered
PollResult(p) ==
    LET st == [ transcript |-> transcript, since |-> closure[p.timer].since,
                cbCalls |-> cbCalls, thrown |-> FALSE ]
    IN IF p.resp.kind = "error" THEN [ st EXCEPT !.thrown = TRUE ]
       ELSE IF HasMessages(p.resp)
            THEN ForEachMessage(p.resp.messages, closure[p.timer].teacherId, st)
            ELSE st

\* faulty variant: a failed tick is reported to the user like a failed Send
PollResponse_Notify(p) ==
    /\ p \in polls /\ p.resp.kind # "pending"
    /\ polls' = polls \ { p }
    /\ transcript' = PollResult(p).transcript
    /\ cbCalls' = PollResult(p).cbCalls
    /\ closure' = [ closure EXCEPT ![p.timer].since = PollResult(p).since ]
    /\ hwm' = [ hwm EXCEPT ![p.timer] = Max(@, PollResult(p).since) ]
    /\ logged' = IF PollResult(p).thrown THEN logged + 1 ELSE logged
    /\ emptyState' = (emptyState /\ ~HasMessages(p.resp))
    /\ toast' = IF PollResult(p).thrown
                THEN [ title |-> "Error", body |-> "Polling error", type |-> "danger" ]
                ELSE toast
    /\ toastCount' = IF PollResult(p).thrown THEN toastCount + 1 ELSE toastCount
    /\ UNCHANGED << pollInterval, active, nStarts, listeners, input, callback,
                    sends, nSends, nSubmits, nPolls, serverLog, overlapped,
                    formVars, canvasVars, swVars >>

PollResponse(p) ==
    /\ p \in polls /\ p.resp.kind # "pending"
    /\ polls' = polls \ { p }
    /\ transcript' = PollResult(p).transcript
    /\ cbCalls' = PollResult(p).cbCalls
    /\ closure' = [ closure EXCEPT ![p.timer].since = PollResult(p).since ]
    /\ hwm' = [ hwm EXCEPT ![p.timer] = Max(@, PollResult(p).since) ]
    /\ logged' = IF PollResult(p).thrown THEN logged + 1 ELSE logged
    /\ emptyState' = (emptyState /\ ~HasMessages(p.resp))
    /\ UNCHANGED << pollInterval, active, nStarts, listeners, input, toast,
                    toastCount, callback, sends, nSends, nSubmits, nPolls, serverLog,
                    overlapped,
                    formVars, canvasVars, swVars >>

\* --------------------------------------------------------- assignment page
\* The assignment page contains #assignment-form with its buttons, one
\* .answer-input textarea with a .char-count, the two modals and the
\* feedback section.
PageHasForm == TRUE
AssignmentIds == { "a1" }
\* what the user types into the empty textarea
AnswerTexts == { << "a" >> }
\* the feedback field of a success response: absent, or a text
Feedbacks ==
    { [ present |-> FALSE, text |-> << >> ],
      [ present |-> TRUE, text |-> << "a", "\n", "b" >> ] }
\* the message field of a success response to submit ('' when absent)
SubmitMessages == { "", "Well done" }
SubmissionIds == { 7 }

\* the responses to a request of the given kind: success, success false with
\* an error string ('' when absent), or no (well-formed) response at all
FormOutcomes(kind) ==
    { [ kind |-> "fail", error |-> e ] : e \in ErrorStrings }
        \cup { [ kind |-> "error" ] }
        \cup CASE kind = "save" -> { [ kind |-> "ok" ] }
               [] kind = "feedback" ->
                    { [ kind |-> "ok", feedback |-> f ] : f \in Feedbacks }
               [] OTHER ->
                    { [ kind |-> "ok", message |-> m, submission_id |-> i ] :
                        m \in SubmitMessages, i \in SubmissionIds }

FormInit ==
    /\ formListeners = << >>
    /\ textareas = << << >> >>
    /\ charCount = << 0 >>
    /\ confirmModal = FALSE
    /\ loadingModal = [ shown |-> FALSE, text |-> "" ]
    /\ feedback = [ shown |-> FALSE, html |-> << >> ]
    /\ redirects = << >>
    /\ location = 0
    /\ reqs = {}
    /\ nReqs = 0

\* initAssignmentForm(assignmentId): sets the character counts, registers the
\* click listeners and the autosave interval
initAssignmentForm(assignmentId) ==
    /\ PageHasForm
    /\ formListeners' = Append(formListeners, assignmentId)
    /\ charCount' = [ i \in DOMAIN textareas |-> Len(textareas[i]) ]
    /\ UNCHANGED << textareas, confirmModal, loadingModal, feedback, redirects,
                    location, reqs, nReqs, toast, toastCount, chatVars,
                    canvasVars, swVars >>

\* typing into a textarea: every registered input listener updates its count
TypeAnswer(i, v) ==
    /\ textareas[i] # v
    /\ textareas' = [ textareas EXCEPT ![i] = v ]
    /\ charCount' = IF formListeners = << >> THEN charCount
                    ELSE [ charCount EXCEPT ![i] = Len(v) ]
    /\ UNCHANGED << formListeners, confirmModal, loadingModal, feedback,
                    redirects, location, reqs, nReqs, toast, toastCount,
                    chatVars,
                    canvasVars, swVars >>

\* getAnswers(): textarea values keyed by index + 1
getAnswers == [ i \in DOMAIN textareas |-> textareas[i] ]

\* the request one call of saveDraft, getAIFeedback or submitAssignment issues
FormRequest(n, kind, assignmentId, silent) ==
    [ id |-> n, kind |-> kind, assignmentId |-> assignmentId,
      silent |-> silent, answers |-> getAnswers, resp |-> [ kind |-> "pending" ] ]

\* the requests of a click: every registered click listener runs its call
ClickRequests(kind) ==
    { FormRequest(nReqs + i, kind, formListeners[i], FALSE) :
        i \in DOMAIN formListeners }

\* click on #save-draft-btn: saveDraft(assignmentId)
ClickSaveDraft ==
    /\ formListeners # << >>
    /\ reqs' = reqs \cup ClickRequests("save")
    /\ nReqs' = nReqs + Len(formListeners)
    /\ UNCHANGED << formListeners, textareas, charCount, confirmModal,
                    loadingModal, feedback, redirects, location, toast,
                    toastCount, chatVars,
                    canvasVars, swVars >>

\* a tick of the autosave interval of listener i: saveDraft(assignmentId, true)
AutosaveTick(i) ==
    /\ i \in DOMAIN formListeners
    /\ reqs' = reqs \cup { FormRequest(nReqs + 1, "save", formListeners[i], TRUE) }
    /\ nReqs' = nReqs + 1
    /\ UNCHANGED << formListeners, textareas, charCount, confirmModal,
                    loadingModal, feedback, redirects, location, toast,
                    toastCount, chatVars,
                    canvasVars, swVars >>

\* click on #get-feedback-btn: getAIFeedback(assignmentId) up to its await
ClickFeedback ==
    /\ formListeners # << >>
    /\ loadingModal' = [ shown |-> TRUE, text |-> "Generating AI feedback..." ]
    /\ reqs' = reqs \cup ClickRequests("feedback")
    /\ nReqs' = nReqs + Len(formListeners)
    /\ UNCHANGED << formListeners, textareas, charCount, confirmModal, feedback,
                    redirects, location, toast, toastCount, chatVars,
                    canvasVars, swVars >>

\* click on #submit-btn: the confirm modal is shown
ClickSubmit ==
    /\ formListeners # << >>
    /\ ~confirmModal
    /\ confirmModal' = TRUE
    /\ UNCHANGED << formListeners, textareas, charCount, loadingModal, feedback,
                    redirects, location, reqs, nReqs, toast, toastCount,
                    chatVars,
                    canvasVars, swVars >>

\* click on #confirm-submit-btn (a button of the confirm modal):
\* submitAssignment(assignmentId) up to its await
ClickConfirm ==
    /\ formListeners # << >>
    /\ confirmModal
    /\ confirmModal' = FALSE
    /\ loadingModal' = [ shown |-> TRUE, text |-> "Submitting assignment..." ]
    /\ reqs' = reqs \cup ClickRequests("submit")
    /\ nReqs' = nReqs + Len(formListeners)
    /\ UNCHANGED << formListeners, textareas, charCount, feedback, redirects,
                    location, toast, toastCount, chatVars,
                    canvasVars, swVars >>

\* String.prototype.replace(/\n/g, '<br>')
RECURSIVE ReplaceNewlines(_)
ReplaceNewlines(s) ==
    IF s = << >> THEN << >>
    ELSE (IF Head(s) = "\n" THEN << "<", "b", "r", ">" >> ELSE << Head(s) >>)
             \o ReplaceNewlines(Tail(s))

\* faulty variant: the loading modal is left as it is
Hidden_Not(modal) == modal

\* loadingModal.hide()
Hidden(modal) == [ modal EXCEPT !.shown = FALSE ]

\* faulty variant: the catch block reports the failure of a silent save too
saveDraftResult_CatchNotSilent(q) ==
    LET cur == [ toast |-> toast, count |-> toastCount ]
        r == q.resp
    IN
    [ t |-> CASE r.kind = "ok" /\ ~q.silent ->
                   showToast(cur, "Saved", "Draft saved successfully", "success")
              [] r.kind = "fail" /\ ~q.silent ->
                   showToast(cur, "Error",
                             OrElse(r.error, "Failed to save draft"), "danger")
              [] r.kind = "error" ->
                   showToast(cur, "Error", "Failed to save draft", "danger")
              [] OTHER -> cur,
      loadingModal |-> loadingModal,
      feedback |-> feedback,
      redirects |-> redirects ]

\* the page after saveDraft has got the response to its request q
saveDraftResult(q) ==
    LET cur == [ toast |-> toast, count |-> toastCount ]
        r == q.resp
    IN
    [ t |-> CASE r.kind = "ok" /\ ~q.silent ->
                   showToast(cur, "Saved", "Draft saved successfully", "success")
              [] r.kind = "fail" /\ ~q.silent ->
                   showToast(cur, "Error",
                             OrElse(r.error, "Failed to save draft"), "danger")
              [] r.kind = "error" /\ ~q.silent ->
                   showToast(cur, "Error", "Failed to save draft", "danger")
              [] OTHER -> cur,
      loadingModal |-> loadingModal,
      feedback |-> feedback,
      redirects |-> redirects ]

\* ... after getAIFeedback has got it: a success response without the
\* feedback field throws at data.feedback.replace and ends in the catch
getAIFeedbackResult(q) ==
    LET cur == [ toast |-> toast, count |-> toastCount ]
        r == q.resp
    IN
    [ t |-> CASE r.kind = "ok" ->
                   IF r.feedback.present THEN cur
                   ELSE showToast(cur, "Error", "Failed to get AI feedback",
                                  "danger")
              [] r.kind = "fail" ->
                   showToast(cur, "Error",
                             OrElse(r.error, "Failed to get AI feedback"),
                             "danger")
              [] OTHER ->
                   showToast(cur, "Error", "Failed to get AI feedback", "danger"),
      loadingModal |-> Hidden(loadingModal),
      feedback |-> IF r.kind = "ok" /\ r.feedback.present
                   THEN [ shown |-> TRUE,
                          html |-> ReplaceNewlines(r.feedback.text) ]
                   ELSE feedback,
      redirects |-> redirects ]

\* ... after submitAssignment has got it
submitAssignmentResult(q) ==
    LET cur == [ toast |-> toast, count |-> toastCount ]
        r == q.resp
    IN
    [ t |-> CASE r.kind = "ok" ->
                   showToast(cur, "Success",
                             OrElse(r.message, "Assignment submitted!"),
                             "success")
              [] r.kind = "fail" ->
                   showToast(cur, "Error", OrElse(r.error, "Failed to submit"),
                             "danger")
              [] OTHER ->
                   showToast(cur, "Error", "Failed to submit assignment",
                             "danger"),
      loadingModal |-> Hidden(loadingModal),
      feedback |-> feedback,
      redirects |-> IF r.kind = "ok" THEN Append(redirects, r.submission_id)
                    ELSE redirects ]

FormResult(q) ==
    CASE q.kind = "save" -> saveDraftResult(q)
      [] q.kind = "feedback" -> getAIFeedbackResult(q)
      [] OTHER -> submitAssignmentResult(q)

\* the server answers request q with r, or the request fails
ServerHandleForm(q, r) ==
    /\ q \in reqs /\ q.resp.kind = "pending"
    /\ reqs' = (reqs \ { q }) \cup { [ q EXCEPT !.resp = r ] }
    /\ UNCHANGED << formListeners, textareas, charCount, confirmModal,
                    loadingModal, feedback, redirects, location, nReqs, toast,
                    toastCount, chatVars,
                    canvasVars, swVars >>

\* the function that awaits the response to request q runs on
FormResponse(q) ==
    /\ q \in reqs /\ q.resp.kind # "pending"
    /\ reqs' = reqs \ { q }
    /\ toast' = FormResult(q).t.toast
    /\ toastCount' = FormResult(q).t.count
    /\ loadingModal' = FormResult(q).loadingModal
    /\ feedback' = FormResult(q).feedback
    /\ redirects' = FormResult(q).redirects
    /\ UNCHANGED << formListeners, textareas, charCount, confirmModal, location,
                    nReqs, chatVars,
                    canvasVars, swVars >>

\* the timeout of a successful submit fires: window.location.href is
\* assigned and the beforeunload listener stops the poll timer; the page is
\* left, so none of its handlers runs afterwards (location # 0)
RedirectFires ==
    /\ redirects # << >>
    /\ location' = Head(redirects)
    /\ redirects' = Tail(redirects)
    /\ IF pollInterval # 0
       THEN /\ active' = active \ { pollInterval }
            /\ pollInterval' = 0
       ELSE UNCHANGED << active, pollInterval >>
    /\ UNCHANGED << formListeners, textareas, charCount, confirmModal,
                    loadingModal, feedback, reqs, nReqs, toast, toastCount,
                    nStarts, closure, listeners, input, transcript, callback, cbCalls,
                    sends, nSends, nSubmits, polls, nPolls, serverLog, hwm,
                    overlapped, logged, emptyState, canvasVars,
                    swVars >>

\* ---------------------------------------------------------- drawing canvas
\* Lengths are whole pixels.  The surface is kept as the rectangle painted
\* by fillRect and the pixels painted by stroke(); a stroke is sampled at the
\* pixels whose centre lies on the segment.  A force is kept as its double
\* (0 stands for no force reported, 2 for the full force 1.0).
MinHeight == 300
DefaultLineWidth == 3
DefaultLineColor == "#1e293b"
Background == "#ffffff"
\* a <canvas> element without width and height attributes
DefaultCanvasSize == [ width |-> 300, height |-> 150 ]
\* a 2d context when it is created and after the canvas size is assigned
DefaultContext ==
    [ lineWidth |-> 1, strokeStyle |-> "#000000", fillStyle |-> "#000000" ]

\* the options given to the constructor (0 and "": not given)
GivenOptions == { [ lineColor |-> "", lineWidth |-> w ] : w \in { 0, 5 } }
\* the arguments of setLineColor and setLineWidth
Colours == { "#ff0000" }
LineWidths == { 5 }
\* the bounding rectangle of the canvas' parent element
ContainerRects ==
    { [ width |-> w, height |-> h ] : w \in { 2, 4 }, h \in { 100, 400 } }
\* where the canvas is shown: as large as its surface, or twice as large
Layouts ==
    { [ left |-> 0, top |-> 0, scale |-> 1 ],
      [ left |-> 10, top |-> 10, scale |-> 2 ] }
\* clientX and clientY of the pointer events
ClientPoints ==
    { << 0, 0 >>, << 3, 0 >>, << 1, 350 >>,
      << 10, 10 >>, << 16, 10 >>, << 12, 710 >> }
Forces == { 0, 2 }

NoSegment == [ from |-> << >>, to |-> << >>, lineWidth |-> 0, strokeStyle |-> "" ]
NoImage ==
    [ mime |-> "", width |-> 0, height |-> 0,
      filled |-> [ width |-> 0, height |-> 0 ], ink |-> {} ]

CanvasInit ==
    /\ constructed = FALSE
    /\ canvasSize = DefaultCanvasSize
    /\ filled = [ width |-> 0, height |-> 0 ]
    /\ ink = {}
    /\ ctx = DefaultContext
    /\ options = [ lineColor |-> "", lineWidth |-> 0 ]
    /\ isDrawing = FALSE
    /\ lastPoint = << >>
    /\ nSegments = 0
    /\ lastSegment = NoSegment
    /\ exported = NoImage
    /\ nOps = 0
    /\ lastOp = [ kind |-> "", touches |-> 0, force |-> 0 ]

Min(a, b) == IF a <= b THEN a ELSE b
Abs(a) == IF a < 0 THEN 0 - a ELSE a

RECURSIVE Gcd(_, _)
Gcd(a, b) == IF b = 0 THEN a ELSE Gcd(b, a % b)

\* ctx.getImageData(0, 0, canvas.width, canvas.height)
CapturedImage ==
    [ width |-> canvasSize.width, height |-> canvasSize.height,
      filled |-> filled, ink |-> ink ]

\* ctx.putImageData(image, 0, 0) on a surface of the given size that was
\* just reset: the part of the image that lies on the surface
putImageData(image, size) ==
    [ filled |-> [ width |-> Min(image.filled.width, size.width),
                   height |-> Min(image.filled.height, size.height) ],
      ink |-> { p \in image.ink : p.x < size.width /\ p.y < size.height } ]

\* faulty variant: the captured image is not put back
resize_NoRestore(rect, opts) ==
    LET size == [ width |-> rect.width, height |-> Max(MinHeight, rect.height) ]
    IN  [ canvasSize |-> size,
          ctx |-> [ DefaultContext EXCEPT !.strokeStyle = opts.lineColor,
                                          !.lineWidth = opts.lineWidth ],
          filled |-> [ width |-> 0, height |-> 0 ],
          ink |-> {} ]

\* resize(): canvas size, context and surface afterwards
resize(rect, opts) ==
    LET imageData == CapturedImage
        size == [ width |-> rect.width, height |-> Max(MinHeight, rect.height) ]
    IN  [ canvasSize |-> size,
          ctx |-> [ DefaultContext EXCEPT !.strokeStyle = opts.lineColor,
                                          !.lineWidth = opts.lineWidth ],
          filled |-> putImageData(imageData, size).filled,
          ink |-> putImageData(imageData, size).ink ]

\* faulty variant: the rectangle is filled underneath what is drawn
clear_Under(size, context) ==
    [ ctx |-> [ context EXCEPT !.fillStyle = Background ],
      filled |-> size,
      ink |-> ink ]

\* clear(): context and surface afterwards
clear(size, context) ==
    [ ctx |-> [ context EXCEPT !.fillStyle = Background ],
      filled |-> size,
      ink |-> {} ]

\* an event or method call is handled
Handled(kind, touches, force) ==
    /\ nOps' = nOps + 1
    /\ lastOp' = [ kind |-> kind, touches |-> touches, force |-> force ]

\* new DrawingCanvas(canvasId, given): constructor and init()
NewDrawingCanvas(given, rect) ==
    /\ ~constructed
    /\ constructed' = TRUE
    /\ LET opts == [ lineColor |-> OrElse(given.lineColor, DefaultLineColor),
                     lineWidth |-> IF given.lineWidth = 0 THEN DefaultLineWidth
                                   ELSE given.lineWidth ]
           r == resize(rect, opts)
           c == clear(r.canvasSize, r.ctx)
       IN  /\ options' = opts
           /\ canvasSize' = r.canvasSize
           /\ ctx' = c.ctx
           /\ filled' = c.filled
           /\ ink' = c.ink
    /\ isDrawing' = FALSE
    /\ lastPoint' = << >>
    /\ lastOp' = [ kind |-> "new", touches |-> 0, force |-> 0 ]
    /\ UNCHANGED << nSegments, lastSegment, exported, nOps, toast, toastCount,
                    chatVars, formVars,
                    swVars >>

\* the resize listener of the window
Resize(rect) ==
    /\ constructed
    /\ canvasSize' = resize(rect, options).canvasSize
    /\ ctx' = resize(rect, options).ctx
    /\ filled' = resize(rect, options).filled
    /\ ink' = resize(rect, options).ink
    /\ Handled("resize", 0, 0)
    /\ UNCHANGED << constructed, options, isDrawing, lastPoint, nSegments,
                    lastSegment, exported, toast, toastCount, chatVars,
                    formVars, swVars >>

\* canvas.getBoundingClientRect() under a layout
BoundingRect(layout) ==
    [ left |-> layout.left, top |-> layout.top,
      width |-> layout.scale * canvasSize.width,
      height |-> layout.scale * canvasSize.height ]

\* the pointer is over the canvas
Inside(client, rect) ==
    /\ rect.left <= client[1] /\ client[1] < rect.left + rect.width
    /\ rect.top <= client[2] /\ client[2] < rect.top + rect.height

getCanvasCoordinates(client, rect) ==
    << ((client[1] - rect.left) * canvasSize.width) \div rect.width,
       ((client[2] - rect.top) * canvasSize.height) \div rect.height >>

getTouchCoordinates(touch, rect) ==
    << ((touch.client[1] - rect.left) * canvasSize.width) \div rect.width,
       ((touch.client[2] - rect.top) * canvasSize.height) \div rect.height >>

\* the mouse events over the canvas, each with the rectangle it is shown in
MouseEvents ==
    { e \in [ client : ClientPoints, rect : { BoundingRect(l) : l \in Layouts } ] :
        Inside(e.client, e.rect) }

\* the touch events: one touch, or two, the first one with or without force
TouchEvents ==
    { [ touches |-> << [ client |-> e.client, force |-> f ] >>, rect |-> e.rect ] :
        e \in MouseEvents, f \in Forces }
    \cup
    { [ touches |-> << [ client |-> e.client, force |-> f ],
                       [ client |-> e.client, force |-> 0 ] >>,
        rect |-> e.rect ] : e \in MouseEvents, f \in Forces }

\* the pixels of the segment
SegmentPixels(from, to) ==
    LET dx == to[1] - from[1]
        dy == to[2] - from[2]
        g == Gcd(Abs(dx), Abs(dy))
    IN  IF g = 0 THEN { from }
        ELSE { << from[1] + (dx \div g) * k, from[2] + (dy \div g) * k >> :
                 k \in 0 .. g }

\* drawLine(from, to) with the context as it is at the call
drawLine(from, to, context) ==
    LET painted == { p \in SegmentPixels(from, to) :
                       /\ 0 <= p[1] /\ p[1] < canvasSize.width
                       /\ 0 <= p[2] /\ p[2] < canvasSize.height }
    IN  [ ink |-> { q \in ink : << q.x, q.y >> \notin painted }
                    \cup { [ x |-> p[1], y |-> p[2], colour |-> context.strokeStyle ] :
                             p \in painted },
          segment |-> [ from |-> from, to |-> to,
                        lineWidth |-> context.lineWidth,
                        strokeStyle |-> context.strokeStyle ] ]

\* mousedown: startDrawing(event)
startDrawing(e) ==
    /\ constructed
    /\ isDrawing' = TRUE
    /\ lastPoint' = getCanvasCoordinates(e.client, e.rect)
    /\ Handled("mousedown", 0, 0)
    /\ UNCHANGED << constructed, canvasSize, filled, ink, ctx, options,
                    nSegments, lastSegment, exported, toast, toastCount,
                    chatVars, formVars,
                    swVars >>

\* mousemove: draw(event)
draw(e) ==
    /\ constructed
    /\ IF ~isDrawing
       THEN UNCHANGED << ink, nSegments, lastSegment, lastPoint >>
       ELSE LET currentPoint == getCanvasCoordinates(e.client, e.rect)
                line == drawLine(lastPoint, currentPoint, ctx)
            IN  /\ ink' = line.ink
                /\ nSegments' = nSegments + 1
                /\ lastSegment' = line.segment
                /\ lastPoint' = currentPoint
    /\ Handled("mousemove", 0, 0)
    /\ UNCHANGED << constructed, canvasSize, filled, ctx, options, isDrawing,
                    exported, toast, toastCount, chatVars, formVars,
                    swVars >>

\* the line width for a reported force, options.lineWidth * force * 2:
\* the argument is the doubled force
ForceWidth(force2) == options.lineWidth * force2

\* faulty variant: any touchstart begins a stroke
TouchStartResult_Any(e) ==
    [ isDrawing |-> TRUE,
      lastPoint |-> getTouchCoordinates(e.touches[1], e.rect),
      ctx |-> IF e.touches[1].force # 0
              THEN [ ctx EXCEPT !.lineWidth = ForceWidth(e.touches[1].force) ]
              ELSE ctx ]

\* handleTouchStart(event): stroke state and context afterwards
TouchStartResult(e) ==
    IF Len(e.touches) = 1
    THEN [ isDrawing |-> TRUE,
           lastPoint |-> getTouchCoordinates(e.touches[1], e.rect),
           ctx |-> IF e.touches[1].force # 0
                   THEN [ ctx EXCEPT !.lineWidth = ForceWidth(e.touches[1].force) ]
                   ELSE ctx ]
    ELSE [ isDrawing |-> isDrawing, lastPoint |-> lastPoint, ctx |-> ctx ]

\* touchstart: handleTouchStart(event)
handleTouchStart(e) ==
    /\ constructed
    /\ isDrawing' = TouchStartResult(e).isDrawing
    /\ lastPoint' = TouchStartResult(e).lastPoint
    /\ ctx' = TouchStartResult(e).ctx
    /\ Handled("touchstart", Len(e.touches), e.touches[1].force)
    /\ UNCHANGED << constructed, canvasSize, filled, ink, options, nSegments,
                    lastSegment, exported, toast, toastCount, chatVars,
                    formVars, swVars >>

\* touchmove: handleTouchMove(event)
handleTouchMove(e) ==
    /\ constructed
    /\ IF ~isDrawing \/ Len(e.touches) # 1
       THEN UNCHANGED << ink, nSegments, lastSegment, lastPoint, ctx >>
       ELSE LET currentPoint == getTouchCoordinates(e.touches[1], e.rect)
                context == IF e.touches[1].force # 0
                           THEN [ ctx EXCEPT
                                    !.lineWidth = ForceWidth(e.touches[1].force) ]
                           ELSE ctx
                line == drawLine(lastPoint, currentPoint, context)
            IN  /\ ctx' = context
                /\ ink' = line.ink
                /\ nSegments' = nSegments + 1
                /\ lastSegment' = line.segment
                /\ lastPoint' = currentPoint
    /\ Handled("touchmove", Len(e.touches), e.touches[1].force)
    /\ UNCHANGED << constructed, canvasSize, filled, options, isDrawing,
                    exported, toast, toastCount, chatVars, formVars,
                    swVars >>

\* faulty variant: the end of a stroke keeps the last point
stopDrawing_KeepsPoint ==
    /\ constructed
    /\ isDrawing' = FALSE
    /\ lastPoint' = lastPoint
    /\ Handled("stop", 0, 0)
    /\ UNCHANGED << constructed, canvasSize, filled, ink, ctx, options,
                    nSegments, lastSegment, exported, toast, toastCount,
                    chatVars, formVars,
                    swVars >>

\* faulty variant: the end of a stroke is ignored
stopDrawing_KeepsDrawing ==
    /\ constructed
    /\ isDrawing' = isDrawing
    /\ lastPoint' = lastPoint
    /\ Handled("stop", 0, 0)
    /\ UNCHANGED << constructed, canvasSize, filled, ink, ctx, options,
                    nSegments, lastSegment, exported, toast, toastCount,
                    chatVars, formVars,
                    swVars >>

\* mouseup, mouseout, touchend: stopDrawing()
stopDrawing ==
    /\ constructed
    /\ isDrawing' = FALSE
    /\ lastPoint' = << >>
    /\ Handled("stop", 0, 0)
    /\ UNCHANGED << constructed, canvasSize, filled, ink, ctx, options,
                    nSegments, lastSegment, exported, toast, toastCount,
                    chatVars, formVars,
                    swVars >>

\* the page calls clear()
Clear ==
    /\ constructed
    /\ ctx' = clear(canvasSize, ctx).ctx
    /\ filled' = clear(canvasSize, ctx).filled
    /\ ink' = clear(canvasSize, ctx).ink
    /\ Handled("clear", 0, 0)
    /\ UNCHANGED << constructed, canvasSize, options, isDrawing, lastPoint,
                    nSegments, lastSegment, exported, toast, toastCount,
                    chatVars, formVars,
                    swVars >>

\* canvas.toDataURL('image/png'): the surface as an image
toDataURL ==
    [ mime |-> "image/png", width |-> canvasSize.width,
      height |-> canvasSize.height, filled |-> filled, ink |-> ink ]

\* the page calls getImageData(), or submit(), which hands the image to
\* options.onSubmit
Export(kind) ==
    /\ constructed
    /\ exported' = toDataURL
    /\ Handled(kind, 0, 0)
    /\ UNCHANGED << constructed, canvasSize, filled, ink, ctx, options,
                    isDrawing, lastPoint, nSegments, lastSegment, toast,
                    toastCount, chatVars, formVars,
                    swVars >>

setLineColor(color) ==
    /\ constructed
    /\ options' = [ options EXCEPT !.lineColor = color ]
    /\ ctx' = [ ctx EXCEPT !.strokeStyle = color ]
    /\ Handled("setLineColor", 0, 0)
    /\ UNCHANGED << constructed, canvasSize, filled, ink, isDrawing, lastPoint,
                    nSegments, lastSegment, exported, toast, toastCount,
                    chatVars, formVars,
                    swVars >>

setLineWidth(width) ==
    /\ constructed
    /\ options' = [ options EXCEPT !.lineWidth = width ]
    /\ ctx' = [ ctx EXCEPT !.lineWidth = width ]
    /\ Handled("setLineWidth", 0, 0)
    /\ UNCHANGED << constructed, canvasSize, filled, ink, isDrawing, lastPoint,
                    nSegments, lastSegment, exported, toast, toastCount,
                    chatVars, formVars,
                    swVars >>

\* ---------------------------------------------------------- service worker
\* A URL of the origin is the sequence of its path segments ('/' is << >>).
\* A handler is taken as one step: after installation nothing the handlers
\* read is written by another one.
CACHE_NAME == "school-portal-v1"
OFFLINE_URL == << "offline.html" >>
CACHE_ASSETS ==
    { << >>, << "static", "css", "style.css" >>, << "static", "js", "main.js" >>,
      << "offline.html" >> }
\* caches left by an earlier version of the worker
OldCaches == [ n \in { "school-portal-v0" } |-> { << >> } ]

\* the requests of the pages
Requests ==
    [ method : { "GET", "POST" },
      url : { << >>, << "chat" >>, << "static", "js", "main.js" >>,
              << "static", "img", "logo.png" >>, << "api", "poll_messages", "t1" >>,
              << "files", "api", "x" >> },
      mode : { "navigate", "no-cors" } ]
\* the data of a push message: none, a text that is not JSON, or an object
\* with or without data.url and a tag
PushMessages ==
    { [ kind |-> "none" ], [ kind |-> "text" ] }
        \cup { [ kind |-> "json", tag |-> t, url |-> u ] :
                 t \in { "", "chat" }, u \in { "", "/chat" } }
\* the action of a click: the notification itself, or one of its buttons
ClickActions == { "", "view", "dismiss" }

NoFetch == [ request |-> [ method |-> "", url |-> << >>, mode |-> "" ],
             handled |-> FALSE, response |-> [ kind |-> "" ] ]

SwInit ==
    /\ swState = "parsed"
    /\ cacheStorage = OldCaches
    /\ windows = << >>
    /\ notifications = {}
    /\ lastFetch = NoFetch
    /\ nSw = 0
    /\ lastSw = [ kind |-> "", action |-> "", notification |-> [ tag |-> "", url |-> "" ] ]

\* an event of the service worker is handled
SwHandled(kind, action, notification) ==
    /\ nSw' = nSw + 1
    /\ lastSw' = [ kind |-> kind, action |-> action, notification |-> notification ]

NoNotification == [ tag |-> "", url |-> "" ]

\* cache.addAll(CACHE_ASSETS) into the cache CACHE_NAME: all or nothing
AddAll(storage, ok) ==
    [ n \in DOMAIN storage \cup { CACHE_NAME } |->
        IF n = CACHE_NAME
        THEN (IF n \in DOMAIN storage THEN storage[n] ELSE {})
                 \cup (IF ok THEN CACHE_ASSETS ELSE {})
        ELSE storage[n] ]

\* install: the worker is installed when every asset was fetched and stored
SwInstall(ok) ==
    /\ swState = "parsed"
    /\ cacheStorage' = AddAll(cacheStorage, ok)
    /\ swState' = IF ok THEN "installed" ELSE "redundant"
    /\ SwHandled("install", "", NoNotification)
    /\ UNCHANGED << windows, notifications, lastFetch, toast, toastCount,
                    chatVars, formVars, canvasVars >>

\* faulty variant: every cache is kept
DeleteOldCaches_Keep(storage) == storage

\* the caches after activate: every cache but CACHE_NAME is deleted
DeleteOldCaches(storage) ==
    [ n \in { c \in DOMAIN storage : c = CACHE_NAME } |-> storage[n] ]

\* activate (clients.claim() makes the worker the controller of the windows
\* in its scope)
SwActivate ==
    /\ swState = "installed"
    /\ cacheStorage' = DeleteOldCaches(cacheStorage)
    /\ swState' = "activated"
    /\ SwHandled("activate", "", NoNotification)
    /\ UNCHANGED << windows, notifications, lastFetch, toast, toastCount,
                    chatVars, formVars, canvasVars >>

\* request.url.includes('/api/')
IncludesApi(url) == \E i \in 1 .. Len(url) - 1 : url[i] = "api"

\* caches.match(url): an entry of any cache
CachesMatch(storage, url) ==
    IF \E n \in DOMAIN storage : url \in storage[n]
    THEN [ kind |-> "cached", url |-> url ]
    ELSE [ kind |-> "undefined" ]

\* faulty variant: the offline page for every request that is not cached
OfflineFallback_Always(storage, request) ==
    IF CachesMatch(storage, request.url).kind = "cached"
    THEN CachesMatch(storage, request.url)
    ELSE CachesMatch(storage, OFFLINE_URL)

\* the catch of the fetch handler: what is answered when the network fails
OfflineFallback(storage, request) ==
    IF CachesMatch(storage, request.url).kind = "cached"
    THEN CachesMatch(storage, request.url)
    ELSE IF request.mode = "navigate"
    THEN CachesMatch(storage, OFFLINE_URL)
    ELSE [ kind |-> "undefined" ]

\* faulty variant: the handler looks at the URL only
FetchResult_AnyMethod(request, networkOk) ==
    IF IncludesApi(request.url)
    THEN [ request |-> request,
           handled |-> FALSE,
           response |-> IF networkOk THEN [ kind |-> "network" ]
                        ELSE [ kind |-> "error" ] ]
    ELSE [ request |-> request,
           handled |-> TRUE,
           response |-> IF networkOk THEN [ kind |-> "network" ]
                        ELSE OfflineFallback(cacheStorage, request) ]

\* the fetch handler: whether it answers (respondWith) and with what; a
\* request it does not answer goes to the network
FetchResult(request, networkOk) ==
    IF request.method # "GET" \/ IncludesApi(request.url)
    THEN [ request |-> request,
           handled |-> FALSE,
           response |-> IF networkOk THEN [ kind |-> "network" ]
                        ELSE [ kind |-> "error" ] ]
    ELSE [ request |-> request,
           handled |-> TRUE,
           response |-> IF networkOk THEN [ kind |-> "network" ]
                        ELSE OfflineFallback(cacheStorage, request) ]

\* fetch
SwFetch(request, networkOk) ==
    /\ swState = "activated"
    /\ lastFetch' = FetchResult(request, networkOk)
    /\ SwHandled("fetch", IF networkOk THEN "online" ELSE "offline", NoNotification)
    /\ UNCHANGED << swState, cacheStorage, windows, notifications, toast,
                    toastCount, chatVars, formVars, canvasVars >>

\* the notification a push message asks for: tag and data.url ('' when the
\* message has none)
PushedNotification(message) ==
    IF message.kind = "json"
    THEN [ tag |-> OrElse(message.tag, "school-notification"), url |-> message.url ]
    ELSE [ tag |-> "school-notification", url |-> "" ]

\* push: showNotification replaces a notification with the same tag
SwPush(message) ==
    /\ swState = "activated"
    /\ LET n == PushedNotification(message) IN
         /\ notifications' = { o \in notifications : o.tag # n.tag } \cup { n }
         /\ SwHandled("push", "", n)
    /\ UNCHANGED << swState, cacheStorage, windows, lastFetch, toast, toastCount,
                    chatVars, formVars, canvasVars >>

\* event.notification.data?.url || '/'
UrlToOpen(notification) == OrElse(notification.url, "/")

\* client.navigate(url) is rejected for a window the worker does not control
\* (the rejection is not handled); client.focus() follows in any case
NavigatedAndFocused(w, url) ==
    [ w EXCEPT !.url = IF w.inScope THEN url ELSE w.url,
               !.navigations = IF w.inScope THEN w.navigations + 1
                               ELSE w.navigations,
               !.focuses = w.focuses + 1 ]

\* the windows after the notificationclick handler
ClickResult(ws, notification, action, opensInScope) ==
    IF action = "dismiss" THEN ws
    ELSE IF ws # << >>
    THEN [ ws EXCEPT ![1] = NavigatedAndFocused(ws[1], UrlToOpen(notification)) ]
    ELSE << [ url |-> UrlToOpen(notification), inScope |-> opensInScope,
              navigations |-> 0, focuses |-> 0 ] >>

\* notificationclick
SwNotificationClick(n, action, opensInScope) ==
    /\ swState = "activated"
    /\ n \in notifications
    /\ notifications' = notifications \ { n }
    /\ windows' = ClickResult(windows, n, action, opensInScope)
    /\ SwHandled("notificationclick", action, n)
    /\ UNCHANGED << swState, cacheStorage, lastFetch, toast, toastCount,
                    chatVars, formVars, canvasVars >>

\* notificationclose: the user closes the notification, the handler logs it
SwNotificationClose(n) ==
    /\ swState = "activated"
    /\ n \in notifications
    /\ notifications' = notifications \ { n }
    /\ SwHandled("notificationclose", "", n)
    /\ UNCHANGED << swState, cacheStorage, windows, lastFetch, toast, toastCount,
                    chatVars, formVars, canvasVars >>

\* the user opens a page of the origin in a new window, inside or outside
\* the scope of the worker
OpenWindow(url, inScope) ==
    /\ windows' = Append(windows, [ url |-> url, inScope |-> inScope,
                                    navigations |-> 0, focuses |-> 0 ])
    /\ nSw' = nSw + 1
    /\ lastSw' = [ kind |-> "window", action |-> "", notification |-> NoNotification ]
    /\ UNCHANGED << swState, cacheStorage, notifications, lastFetch, toast,
                    toastCount, chatVars, formVars, canvasVars >>

\* ------------------------------------------------------------ specification
\* the state after the scripts have been loaded
Init ==
    /\ pollInterval = 0
    /\ active = {}
    /\ nStarts = 0
    /\ closure = << >>
    /\ listeners = << >>
    /\ input = << >>
    /\ transcript = << >>
    /\ toast = NoToast
    /\ toastCount = 0
    /\ callback = "null"
    /\ cbCalls = << >>
    /\ sends = {}
    /\ nSends = 0
    /\ nSubmits = 0
    /\ polls = {}
    /\ nPolls = 0
    /\ serverLog = << >>
    /\ hwm = << >>
    /\ overlapped = FALSE
    /\ logged = 0
    /\ emptyState = TRUE
    /\ FormInit
    /\ CanvasInit
    /\ SwInit

PollAnswers ==
    { [ kind |-> "error" ] }
        \cup { [ kind |-> "json", messages |-> ArrayOf(q) ] : q \in AnyPollResult }

\* the page is loaded after the messages stored so far were rendered into it
\* (lastTime is the time of the last one), or with no lastTime
LastTimes == { 0, Len(serverLog) }

\* the page's own calls: initChat when it is loaded, Stop
PageLifecycle(max) ==
    \/ /\ Events < max
       /\ \E id \in TeacherIds, lt \in LastTimes : initChat(id, lt)
    \/ stopPolling

\* ... and direct calls of the global startPolling
Lifecycle(max) ==
    \/ /\ Events < max
       /\ \E id \in TeacherIds, lt \in LastTimes : initChat(id, lt)
    \/ /\ Events < max
       /\ \E id \in TeacherIds, lt \in LastTimes : StartPollingCall(id, lt)
    \/ stopPolling

Sending(max) ==
    \/ \E v \in Inputs : TypeInput(v)
    \/ Events < max /\ Submit
    \/ \E s \in sends, r \in SendOutcomes :
          /\ r.kind = "ok" => Events < max
          /\ ServerHandleSend(s, r)
    \/ \E s \in sends : SendResponse(s)

\* the answers to request p: any, or (exact) only what the contract allows
Answers(p, exact) ==
    IF exact
    THEN { [ kind |-> "error" ],
           [ kind |-> "json", messages |-> ExactPollResult(p.url) ] }
    ELSE PollAnswers

\* serial: a timer's tick fires only after its earlier request was processed
Polling(max, exact, serial) ==
    \/ \E c \in Callbacks : SetCallback(c)
    \/ /\ Events < max
       /\ \E text \in OtherTexts, fromStudent \in BOOLEAN :
            ServerStore(text, fromStudent)
    \/ /\ Events < max
       /\ \E t \in active :
            /\ serial => \A p \in polls : p.timer # t
            /\ Tick(t)
    \/ \E p \in polls : \E r \in Answers(p, exact) : ServerHandlePoll(p, r)
    \/ \E p \in polls : PollResponse(p)

\* A page is the chat page or the assignment page: the handlers of the one
\* run only while nothing of the other has been set up or typed into, and
\* no handler runs once the page is left.
OnChatPage ==
    location = 0 /\ formListeners = << >> /\ textareas = << << >> >>
OnAssignmentPage ==
    location = 0 /\ listeners = << >> /\ input = << >>

\* the assignment page: loading, typing, the clicks, the autosave ticks, the
\* responses and the redirect after a successful submit
Form(max) ==
    \/ /\ OnAssignmentPage /\ Events < max
       /\ \E id \in AssignmentIds : initAssignmentForm(id)
    \/ /\ OnAssignmentPage
       /\ \E i \in DOMAIN textareas, v \in AnswerTexts : TypeAnswer(i, v)
    \/ OnAssignmentPage /\ Events < max /\ ClickSaveDraft
    \/ /\ OnAssignmentPage /\ Events < max
       /\ \E i \in DOMAIN formListeners : AutosaveTick(i)
    \/ OnAssignmentPage /\ Events < max /\ ClickFeedback
    \/ OnAssignmentPage /\ ClickSubmit
    \/ OnAssignmentPage /\ Events < max /\ ClickConfirm
    \/ /\ OnAssignmentPage
       /\ \E q \in reqs : \E r \in FormOutcomes(q.kind) : ServerHandleForm(q, r)
    \/ OnAssignmentPage /\ \E q \in reqs : FormResponse(q)
    \/ OnAssignmentPage /\ RedirectFires

\* the drawing canvas: construction, the events of window and canvas, and
\* the methods the page calls
Drawing(max) ==
    \/ \E given \in GivenOptions, rect \in ContainerRects :
          NewDrawingCanvas(given, rect)
    \/ Events < max /\ \E rect \in ContainerRects : Resize(rect)
    \/ Events < max /\ \E e \in MouseEvents : startDrawing(e)
    \/ Events < max /\ \E e \in MouseEvents : draw(e)
    \/ Events < max /\ \E e \in TouchEvents : handleTouchStart(e)
    \/ Events < max /\ \E e \in TouchEvents : handleTouchMove(e)
    \/ Events < max /\ stopDrawing
    \/ Events < max /\ Clear
    \/ Events < max /\ \E kind \in { "getImageData", "submit" } : Export(kind)
    \/ Events < max /\ \E color \in Colours : setLineColor(color)
    \/ Events < max /\ \E width \in LineWidths : setLineWidth(width)

\* the service worker: its life cycle, its events, and the windows the user
\* opens
Worker(max) ==
    \/ \E ok \in BOOLEAN : SwInstall(ok)
    \/ SwActivate
    \/ Events < max /\ \E r \in Requests, ok \in BOOLEAN : SwFetch(r, ok)
    \/ Events < max /\ \E m \in PushMessages : SwPush(m)
    \/ /\ Events < max
       /\ \E n \in notifications, a \in ClickActions, s \in BOOLEAN :
            SwNotificationClick(n, a, s)
    \/ Events < max /\ \E n \in notifications : SwNotificationClose(n)
    \/ /\ Events < max
       /\ \E u \in { "/", "/chat" }, s \in BOOLEAN : OpenWindow(u, s)

\* Send and the poll cycle together
Next == Lifecycle(MaxJoint) \/ Sending(MaxJoint) \/ Polling(MaxJoint, FALSE, FALSE)
Spec == Init /\ [][Next]_vars

\* the poll cycle alone
NextPoll == Lifecycle(MaxPolling) \/ Polling(MaxPolling, FALSE, FALSE)
SpecPoll == Init /\ [][NextPoll]_vars

\* the poll cycle with a server that keeps to its contract
NextExact == PageLifecycle(MaxExact) \/ Polling(MaxExact, TRUE, FALSE)
SpecExact == Init /\ [][NextExact]_vars

\* ... and with ticks processed one after another
NextSerial == PageLifecycle(MaxExact) \/ Polling(MaxExact, TRUE, TRUE)
SpecSerial == Init /\ [][NextSerial]_vars

\* the user-initiated actions: Send on the chat page, Save, Feedback and
\* Submit on the assignment page
NextForm ==
    \/ OnChatPage /\ PageLifecycle(MaxForm)
    \/ OnChatPage /\ Sending(MaxForm)
    \/ Form(MaxForm)
SpecForm == Init /\ [][NextForm]_vars

\* the drawing canvas alone
NextCanvas == Drawing(MaxCanvas)
SpecCanvas == Init /\ [][NextCanvas]_vars

\* the service worker alone
NextWorker == Worker(MaxWorker)
SpecWorker == Init /\ [][NextWorker]_vars

\* Send and the poll cycle of one page, long enough for a poll to return a
\* message the page has sent itself
Echo(max) ==
    \/ /\ Events < max
       /\ \E id \in TeacherIds, lt \in LastTimes : initChat(id, lt)
    \/ TypeInput(<< "a" >>)
    \/ Events < max /\ Submit
    \/ \E s \in sends, r \in SendOutcomes :
          /\ r.kind = "ok" => Events < max
          /\ ServerHandleSend(s, r)
    \/ \E s \in sends : SendResponse(s)
    \/ /\ Events < max
       /\ \E text \in OtherTexts : ServerStore(text, FALSE)
    \/ /\ Events < max
       /\ \E t \in active : Tick(t)
    \/ \E p \in polls : \E r \in Answers(p, TRUE) : ServerHandlePoll(p, r)
    \/ \E p \in polls : PollResponse(p)

NextEcho == Echo(MaxEcho)
SpecEcho == Init /\ [][NextEcho]_vars

\* ================================================================== claims
\* a Send is one run of the submit listener; a submit event runs every
\* registered listener (initChat registers one per call)
SubmitEvent == nSubmits' = nSubmits + 1
\* the response to request s is processed in this step
SendDone(s) == s \in sends /\ s.resp.kind # "pending" /\ s \notin sends'
SendFailed(s) == SendDone(s) /\ s.resp.kind \in { "fail", "error" }
\* the requests issued in this step
NewSends == { s \in sends' : \A o \in sends : o.id # s.id }
\* b is a "sent" bubble showing text
IsSentBubble(b, text) ==
    b.cls = "sent" /\ RenderedText(b.html) = text /\ b.ts = 0

C2_EmptySendIsNoOp ==
    [][ (SubmitEvent /\ Trim(input) = << >>) =>
          UNCHANGED << sends, nSends, transcript, toast, toastCount, input,
                       closure, polls, nPolls, pollInterval, active, serverLog,
                       logged, emptyState >>
      ]_vars

\* a submit of whitespace-only input has happened
C2_Witness ==
    nSubmits = 1 /\ input = << " " >> /\ nSends = 0 /\ listeners # << >>

\* C3: a failed Send (no JSON answer, or success false) shows exactly one
\* error notification, appends no bubble, keeps the input and issues no
\* further request.
C3_FailedSend ==
    [][ \A s \in sends : SendFailed(s) =>
          /\ toastCount' = toastCount + 1
          /\ toast'.title = "Error" /\ toast'.type = "danger"
          /\ transcript' = transcript
          /\ input' = input
          /\ sends' = sends \ { s }
          /\ nSends' = nSends /\ nPolls' = nPolls
      ]_vars

\* a Send has failed and its text is still in the input
C3_Witness ==
    /\ toastCount = 1 /\ toast.type = "danger"
    /\ sends = {} /\ nSends = 1 /\ nSubmits = 1
    /\ transcript = << >>
    /\ Trim(input) # << >>

\* ---- the poll cycle
\* the response to request p is processed in this step
PollDone(p) == p \in polls /\ p.resp.kind # "pending" /\ p \notin polls'
\* the requests issued in this step
NewPolls == { p \in polls' : \A o \in polls : o.id # p.id }
\* the cursor of timer t
Since(t) == closure[t].since

\* the "received" bubbles of the messages of an array, in array order
RECURSIVE ReceivedBubbles(_)
ReceivedBubbles(msgs) ==
    IF msgs = << >> THEN << >>
    ELSE IF Head(msgs).from_student THEN ReceivedBubbles(Tail(msgs))
    ELSE << [ cls |-> "received", html |-> escapeHtml(Head(msgs).text),
              ts |-> Head(msgs).timestamp ] >> \o ReceivedBubbles(Tail(msgs))

\* the callback invocations the messages of an array ask for
RECURSIVE ExpectedCalls(_, _)
ExpectedCalls(msgs, teacherId) ==
    IF msgs = << >> THEN << >>
    ELSE IF Head(msgs).from_student THEN ExpectedCalls(Tail(msgs), teacherId)
    ELSE << << Head(msgs).text, teacherId >> >> \o ExpectedCalls(Tail(msgs), teacherId)

\* C4: processing a poll response appends exactly the returned messages with
\* from_student false as "received" bubbles, in array order, invokes the
\* registered callback once per such message, and leaves `since` at the last
\* returned timestamp (10:01 for [teacher 10:00, student 10:01]).
C4_ReceivedExactly ==
    [][ \A p \in polls : (PollDone(p) /\ p.resp.kind = "json") =>
          /\ transcript' = transcript \o ReceivedBubbles(p.resp.messages)
          /\ cbCalls' = IF callback = "null" THEN cbCalls
                        ELSE cbCalls \o ExpectedCalls(p.resp.messages,
                                                      closure[p.timer].teacherId)
          /\ p.resp.messages # << >> =>
               closure'[p.timer].since =
                   p.resp.messages[Len(p.resp.messages)].timestamp
      ]_vars

\* the response was processed to its end: forEach was not left by an
\* exception of the callback
FullyProcessed(p) ==
    ~ ( callback = "throws" /\ \E i \in DOMAIN p.resp.messages :
                                   ~p.resp.messages[i].from_student )

\* C5: after a non-empty poll response is fully processed, `since` is the
\* timestamp of the last element of the array, whatever its origin and
\* whatever the order of the array.
C5_SinceIsLastElement ==
    [][ \A p \in polls :
          ( /\ PollDone(p) /\ p.resp.kind = "json"
            /\ p.resp.messages # << >> /\ FullyProcessed(p) ) =>
              closure'[p.timer].since =
                  p.resp.messages[Len(p.resp.messages)].timestamp
      ]_vars

\* an array [2, 1] was processed: the cursor is 1, not the maximum 2
C5_Witness ==
    /\ nPolls = 1 /\ polls = {} /\ nStarts = 1
    /\ Len(transcript) = 2
    /\ transcript[1].ts = 2 /\ transcript[2].ts = 1
    /\ Since(1) = 1

\* no message is rendered twice
NoDoubleRender ==
    \A i, j \in DOMAIN transcript :
        ( /\ i # j /\ transcript[i].cls = "received"
          /\ transcript[j].cls = "received" ) => transcript[i].ts # transcript[j].ts

\* C6: with ticks processed one after another and a server that returns
\* exactly the messages newer than since, no message is rendered twice, and a
\* message returned by a processed tick is not newer than the cursor
\* afterwards, so no later tick returns it again.
C6_NoMessageTwice ==
    /\ []NoDoubleRender
    /\ [][ \A p \in polls : (PollDone(p) /\ p.resp.kind = "json") =>
              \A i \in DOMAIN p.resp.messages :
                  p.resp.messages[i].timestamp <= closure'[p.timer].since
          ]_vars

\* C7: after Stop (pollInterval is null again) no poll request is issued.
C7_NoRequestAfterStop ==
    [][ nPolls' > nPolls => pollInterval # 0 ]_vars

\* C8: at most one poll timer is active, and pollInterval is non-null exactly
\* when one is (it then holds that timer's handle).
C8_IdleOrPolling ==
    /\ Cardinality(active) <= 1
    /\ (pollInterval # 0) <=> (active # {})
    /\ pollInterval # 0 => active = { pollInterval }

\* C9: ticks are not fenced, and a response overtaken by a later one moves
\* the cursor backward.  With a server that keeps to its contract this is
\* the only way back: when `since` is below a value it has held, some tick
\* has fired while a request of its timer was in flight.
C9_BackwardOnlyByOverlap ==
    (\E t \in DOMAIN closure : Since(t) < hwm[t]) => overlapped

\* two requests of one timer overlapped and the cursor has moved backward
C9_Witness ==
    /\ overlapped
    /\ nStarts = 1
    /\ polls = {}
    /\ Since(1) < hwm[1]
    /\ callback = "null"

\* C10: a failed poll tick is logged and swallowed: no notification, the
\* transcript, the cursor and the timers unchanged; every tick issues its
\* request with the current cursor (no backoff).  A failed Send always
\* shows a notification.
C10_PollFailureSwallowed ==
    [][ /\ \A p \in polls : (PollDone(p) /\ p.resp.kind = "error") =>
             /\ logged' = logged + 1
             /\ UNCHANGED << toast, toastCount, transcript, closure, active,
                             pollInterval, cbCalls, input, nPolls >>
        /\ \A p \in NewPolls :
             /\ p.timer \in active
             /\ p.url = PollUrl(closure[p.timer].teacherId, Since(p.timer))
        /\ \A s \in sends : SendFailed(s) => toastCount' = toastCount + 1
      ]_vars

\* a tick failed without any notification and the next tick has fired
C10_Witness ==
    /\ logged = 1 /\ callback = "null"
    /\ toastCount = 0 /\ transcript = << >>
    /\ nPolls = 2 /\ \E p \in polls : p.id = 2 /\ p.timer \in active

\* C11: `since` starts as the lastTime given to startPolling (empty when
\* none is given); a poll request has no since parameter while `since` is
\* empty and otherwise carries the current value of `since`.
C11_SinceInUrl ==
    [][ /\ nStarts' = nStarts + 1 =>
             /\ closure'[nStarts'].since \in LastTimes
             /\ closure'[nStarts'].since = hwm'[nStarts']
             /\ \A t \in DOMAIN closure : closure'[t] = closure[t]
        /\ \A p \in NewPolls :
             /\ p.url.teacherId = closure[p.timer].teacherId
             /\ Since(p.timer) = 0 => p.url.query = << >>
             /\ Since(p.timer) # 0 => p.url.query = << Since(p.timer) >>
      ]_vars

\* a request without the parameter was processed, the cursor moved, and the
\* next request of the timer carries the new cursor
C11_Witness ==
    /\ nStarts = 1 /\ hwm[1] > 0 /\ nPolls = 2
    /\ \E p \in polls : p.id = 2 /\ p.url.query = << Since(1) >>
    /\ closure[1].since > 0

\* ---- the assignment page
\* the response to request q is processed in this step
FormDone(q) == q \in reqs /\ q.resp.kind # "pending" /\ q \notin reqs'
\* ... and it is success false, a transport failure, or a success response
\* whose processing throws
FormFailed(q) ==
    /\ FormDone(q)
    /\ \/ q.resp.kind \in { "fail", "error" }
       \/ q.kind = "feedback" /\ q.resp.kind = "ok" /\ ~q.resp.feedback.present
\* an error notification is shown in this step
ErrorShown ==
    /\ toastCount' = toastCount + 1
    /\ toast'.title = "Error" /\ toast'.type = "danger"

\* C12: every failure path of a user-initiated action leaves the page
\* retry-able.  After getAIFeedback or submitAssignment has completed with
\* success false or a thrown error the loading modal is hidden, an error
\* notification has been shown and no redirect has been scheduled; a failed
\* saveDraft changes nothing of the form, and a failed Send keeps the input,
\* the transcript and the listener.
C12_FailureLeavesRetryable ==
    [][ /\ \A q \in reqs : (FormFailed(q) /\ q.kind \in { "feedback", "submit" }) =>
             /\ ~loadingModal'.shown
             /\ ErrorShown
             /\ redirects' = redirects /\ location' = location
             /\ UNCHANGED << formListeners, textareas >>
        /\ \A q \in reqs : (FormFailed(q) /\ q.kind = "save") =>
             /\ ~q.silent => ErrorShown
             /\ UNCHANGED << formListeners, textareas, confirmModal,
                             loadingModal, feedback, redirects, location >>
        /\ \A s \in sends : SendFailed(s) =>
             /\ ErrorShown
             /\ UNCHANGED << listeners, input, transcript, location >>
      ]_vars

\* a submit has failed: the loading modal is hidden again, the error is
\* shown and nothing is scheduled
C12_Witness ==
    /\ nReqs = 1 /\ reqs = {}
    /\ loadingModal = [ shown |-> FALSE, text |-> "Submitting assignment..." ]
    /\ toastCount = 1 /\ toast.type = "danger"
    /\ redirects = << >> /\ location = 0

\* the fallback of `data.error || '...'` in the handler of each action
Fallback(kind) ==
    CASE kind = "send" -> "Failed to send message"
      [] kind = "save" -> "Failed to save draft"
      [] kind = "feedback" -> "Failed to get AI feedback"
      [] OTHER -> "Failed to submit"
\* the message of the catch block of each action
TransportMessage(kind) ==
    IF kind = "submit" THEN "Failed to submit assignment" ELSE Fallback(kind)
\* the error notification with this message is shown in this step
Shows(message) ==
    /\ toastCount' = toastCount + 1
    /\ toast' = [ title |-> "Error", body |-> message, type |-> "danger" ]
\* the message for a response with success false
ErrorOr(resp, fallback) == IF resp.error # "" THEN resp.error ELSE fallback

\* C13 (as stated): for send, save, feedback and submit a response with
\* success false shows the server's error string when it is non-empty and
\* the action's generic fallback message otherwise; a transport failure
\* always shows that generic fallback message.
C13_OneFallbackPerAction ==
    [][ /\ \A q \in reqs : FormDone(q) =>
             /\ q.resp.kind = "fail" => Shows(ErrorOr(q.resp, Fallback(q.kind)))
             /\ q.resp.kind = "error" => Shows(Fallback(q.kind))
        /\ \A s \in sends : SendDone(s) =>
             /\ s.resp.kind = "fail" => Shows(ErrorOr(s.resp, Fallback("send")))
             /\ s.resp.kind = "error" => Shows(Fallback("send"))
      ]_vars

\* C13 (amended): for send, feedback, submit and a save that is not silent,
\* a response with success false shows the server's error string when it is
\* non-empty and the action's fallback message otherwise; a transport
\* failure shows the fixed message of the action's catch block, which is
\* the fallback message except for submit ("Failed to submit assignment",
\* fallback "Failed to submit"); a silent save shows nothing.
C13_ErrorMessages ==
    [][ /\ \A q \in reqs : (FormDone(q) /\ ~q.silent) =>
             /\ q.resp.kind = "fail" => Shows(ErrorOr(q.resp, Fallback(q.kind)))
             /\ q.resp.kind = "error" => Shows(TransportMessage(q.kind))
        /\ \A q \in reqs : (FormDone(q) /\ q.silent) =>
             UNCHANGED << toast, toastCount >>
        /\ \A s \in sends : SendDone(s) =>
             /\ s.resp.kind = "fail" => Shows(ErrorOr(s.resp, Fallback("send")))
             /\ s.resp.kind = "error" => Shows(Fallback("send"))
      ]_vars

\* a submit without a response has shown the message of its catch block
C13_Witness ==
    /\ nReqs = 1 /\ reqs = {}
    /\ loadingModal.text = "Submitting assignment..."
    /\ toastCount = 1
    /\ toast = [ title |-> "Error", body |-> "Failed to submit assignment",
                 type |-> "danger" ]

\* ---- the drawing canvas
\* an event or call of the given kinds is handled in this step
CanvasStep(kinds) == nOps' = nOps + 1 /\ lastOp'.kind \in kinds
\* a segment is drawn in this step
SegmentDrawn == nSegments' = nSegments + 1

\* C14: multi-touch is ignored for drawing: a touchstart with more than one
\* touch point does not begin a stroke, and a touchmove with more than one
\* touch point draws no segment.
C14_MultiTouchIgnored ==
    [][ /\ (CanvasStep({ "touchstart" }) /\ lastOp'.touches > 1) =>
             UNCHANGED << isDrawing, lastPoint, ink, nSegments, ctx >>
        /\ (CanvasStep({ "touchmove" }) /\ lastOp'.touches > 1) =>
             UNCHANGED << isDrawing, lastPoint, ink, nSegments, ctx >>
      ]_vars

\* during a stroke begun with one finger a touchmove with two touch points
\* has been handled and nothing is drawn
C14_Witness ==
    /\ lastOp.kind = "touchmove" /\ lastOp.touches = 2
    /\ isDrawing /\ lastPoint # << >>
    /\ nSegments = 0 /\ ink = {}

\* C15: a reported force gives the line width base-width x force x 2 for that
\* segment only: a segment of a touch without force, or of the mouse, is
\* drawn with the base width, not with the width scaled for an earlier one.
C15_ForceForThatSegmentOnly ==
    [][ SegmentDrawn =>
          /\ lastSegment'.lineWidth = ctx'.lineWidth
          /\ lastOp'.force # 0 =>
               lastSegment'.lineWidth = (options.lineWidth * lastOp'.force * 2) \div 2
          /\ lastOp'.force = 0 => lastSegment'.lineWidth = options.lineWidth
      ]_vars

\* the colour of pixel (x, y) of a surface
ColourOf(fill, inked, x, y) ==
    IF \E p \in inked : p.x = x /\ p.y = y
    THEN (CHOOSE p \in inked : p.x = x /\ p.y = y).colour
    ELSE IF x < fill.width /\ y < fill.height THEN Background
    ELSE "transparent"
\* the pixels looked at: those a stroke can paint, and the borders
Probes == { << x, y >> : x \in 0 .. 3, y \in { 0, 175, 299, 300, 350, 399 } }

\* C16: resize preserves what was drawn: every pixel of the top-left region
\* bounded by the smaller of the old and the new width and height keeps its
\* colour, and the canvas is at least 300 high.
C16_ResizePreserves ==
    [][ CanvasStep({ "resize" }) =>
          /\ canvasSize'.height >= MinHeight
          /\ \A p \in Probes :
               ( /\ p[1] < Min(canvasSize.width, canvasSize'.width)
                 /\ p[2] < Min(canvasSize.height, canvasSize'.height) ) =>
                   ColourOf(filled', ink', p[1], p[2]) = ColourOf(filled, ink, p[1], p[2])
          /\ \A q \in ink' : q \in ink
      ]_vars

\* a line to (3, 0) was drawn and the canvas was resized to the width 2:
\* the two pixels that are left of the line still have its colour
C16_Witness ==
    /\ lastOp.kind = "resize" /\ canvasSize.width = 2
    /\ lastSegment.from = << 0, 0 >> /\ lastSegment.to = << 3, 0 >>
    /\ ink = { [ x |-> 0, y |-> 0, colour |-> DefaultLineColor ],
               [ x |-> 1, y |-> 0, colour |-> DefaultLineColor ] }
    /\ filled = canvasSize

\* C17: Clear sets every pixel of the surface to the background colour
\* whatever was drawn before, so an Export after Clear with no stroke in
\* between contains no stroke pixel; Export changes neither the surface nor
\* the stroke state.
C17_ClearThenExport ==
    [][ /\ CanvasStep({ "clear" }) =>
             /\ ink' = {} /\ filled' = canvasSize'
             /\ \A p \in Probes :
                  (p[1] < canvasSize'.width /\ p[2] < canvasSize'.height) =>
                      ColourOf(filled', ink', p[1], p[2]) = Background
        /\ (ink = {} /\ ~SegmentDrawn) => ink' = {}
        /\ CanvasStep({ "getImageData", "submit" }) =>
             /\ exported'.ink = ink /\ exported'.filled = filled
             /\ exported'.width = canvasSize.width
             /\ exported'.height = canvasSize.height
             /\ UNCHANGED << canvasSize, filled, ink, ctx, options, isDrawing,
                             lastPoint, nSegments, lastSegment >>
      ]_vars

\* a line was drawn, the canvas was cleared and then exported: the image is
\* the background all over
C17_Witness ==
    /\ lastOp.kind = "getImageData"
    /\ nSegments = 1 /\ nOps = 4
    /\ exported.ink = {} /\ exported.filled = canvasSize
    /\ exported.width = canvasSize.width

\* ---- the service worker
\* an event of the given kind is handled in this step
WorkerStep(kind) == nSw' = nSw + 1 /\ lastSw'.kind = kind
\* some cache has an entry for the URL
IsCached(url) == \E n \in DOMAIN cacheStorage : url \in cacheStorage[n]

\* C18: a GET request the worker handles and whose network fetch fails is
\* answered with the cached entry for the request when there is one,
\* otherwise with the cached offline page when it is a navigation (and not
\* at all when it is not); so a failed navigation is always answered with a
\* cached response or the offline page.
C18_OfflineFallback ==
    [][ ( /\ WorkerStep("fetch") /\ lastSw'.action = "offline"
          /\ lastFetch'.handled ) =>
          LET request == lastFetch'.request IN
            /\ request.method = "GET"
            /\ IsCached(request.url) =>
                 lastFetch'.response = [ kind |-> "cached", url |-> request.url ]
            /\ (~IsCached(request.url) /\ request.mode = "navigate") =>
                 lastFetch'.response = [ kind |-> "cached", url |-> OFFLINE_URL ]
            /\ (~IsCached(request.url) /\ request.mode # "navigate") =>
                 lastFetch'.response = [ kind |-> "undefined" ]
            /\ request.mode = "navigate" => lastFetch'.response.kind = "cached"
      ]_vars

\* the navigation to /chat has failed and was answered with the offline page
C18_Witness ==
    /\ lastSw.kind = "fetch" /\ lastSw.action = "offline"
    /\ lastFetch.handled
    /\ lastFetch.request = [ method |-> "GET", url |-> << "chat" >>,
                             mode |-> "navigate" ]
    /\ lastFetch.response = [ kind |-> "cached", url |-> OFFLINE_URL ]

\* C19: a notification click always closes the notification; for the action
\* 'dismiss' no window is focused, navigated or opened; otherwise, if there
\* is a window client, exactly one client is navigated to data.url (or '/')
\* and focused and no window is opened, and if there is none exactly one
\* window is opened at that URL.
C19_ClickOpensOrFocuses ==
    [][ WorkerStep("notificationclick") =>
          LET n == lastSw'.notification
              url == IF n.url # "" THEN n.url ELSE "/"
          IN  /\ n \in notifications /\ n \notin notifications'
              /\ lastSw'.action = "dismiss" => windows' = windows
              /\ (lastSw'.action # "dismiss" /\ windows # << >>) =>
                   /\ Len(windows') = Len(windows)
                   /\ \E i \in DOMAIN windows :
                        /\ windows'[i] =
                             [ windows[i] EXCEPT
                                 !.url = url,
                                 !.navigations = windows[i].navigations + 1,
                                 !.focuses = windows[i].focuses + 1 ]
                        /\ \A j \in DOMAIN windows \ { i } :
                             windows'[j] = windows[j]
              /\ (lastSw'.action # "dismiss" /\ windows = << >>) =>
                   /\ Len(windows') = 1
                   /\ windows'[1].url = url
      ]_vars

\* ---- Send and poll together
\* the "sent" bubbles of the transcript showing text
SentBubbles(tr, text) == { i \in DOMAIN tr : IsSentBubble(tr[i], text) }
\* the stored messages the student has sent with that text
StoredSent(text) ==
    { i \in DOMAIN serverLog :
        serverLog[i].from_student /\ serverLog[i].text = text }
\* the successful Sends whose response is not processed yet
SuccessPending(text) ==
    { s \in sends : s.resp.kind = "ok" /\ s.message = text }

C21_SinceChangedOnlyByMessages ==
    [][ /\ Len(closure') >= Len(closure)
        /\ \A t \in DOMAIN closure :
             closure'[t].since # closure[t].since =>
               \E p \in polls :
                 /\ PollDone(p) /\ p.timer = t
                 /\ p.resp.kind = "json" /\ p.resp.messages # << >>
        /\ \A s \in sends : SendDone(s) => closure' = closure
        /\ \A p \in polls :
             (PollDone(p) /\ ~HasMessages(p.resp)) => closure' = closure
        /\ (pollInterval # 0 /\ pollInterval' = 0) => closure' = closure
      ]_vars

\* the page was loaded without lastTime, a poll response with the one
\* stored message was processed and the cursor is at its timestamp
C21_Witness ==
    /\ nStarts = 1 /\ nPolls = 1 /\ polls = {}
    /\ Len(serverLog) = 1
    /\ hwm[1] = 1 /\ Since(1) = 1
    /\ Len(transcript) = 1 /\ transcript[1].cls = "received"

\* the step begins a stroke (mousedown, or touchstart with one touch) or
\* ends one (mouseup, mouseout, touchend)
BeginStep ==
    \/ CanvasStep({ "mousedown" })
    \/ CanvasStep({ "touchstart" }) /\ lastOp'.touches = 1
EndStep == CanvasStep({ "stop" })
MoveStep == CanvasStep({ "mousemove", "touchmove" })

\* C22: a segment is drawn only while a stroke is in progress.  isDrawing
\* says that a Begin has occurred with no End since; a segment is drawn only
\* by a move during a stroke, from the last point to the point that becomes
\* the last point; a mouse move or one-finger move during a stroke draws one;
\* a move with no stroke in progress changes neither the surface nor the
\* stroke state.
C22_SegmentOnlyDuringStroke ==
    [][ /\ isDrawing' = (BeginStep \/ (isDrawing /\ ~EndStep))
        /\ nSegments' # nSegments =>
             /\ MoveStep /\ isDrawing /\ SegmentDrawn
             /\ lastSegment'.from = lastPoint
             /\ lastSegment'.to = lastPoint'
        /\ lastPoint' # lastPoint => (BeginStep \/ EndStep \/ SegmentDrawn)
        /\ ( /\ MoveStep /\ isDrawing
             /\ lastOp'.kind = "touchmove" => lastOp'.touches = 1 ) => SegmentDrawn
        /\ (MoveStep /\ ~isDrawing) =>
             UNCHANGED << ink, filled, canvasSize, ctx, nSegments, lastSegment,
                          isDrawing, lastPoint >>
      ]_vars

\* a stroke with one segment was ended, and the move that followed has drawn
\* nothing
C22_Witness ==
    /\ lastOp.kind \in { "mousemove", "touchmove" }
    /\ ~isDrawing /\ lastPoint = << >>
    /\ nSegments = 1 /\ nOps = 4

\* one notification of the given type is shown in this step
NotificationShown(type) == toastCount' = toastCount + 1 /\ toast'.type = type

\* C23: a silent saveDraft (the autosave) never shows a notification, whether
\* the save succeeds, returns success false or throws; a saveDraft that is
\* not silent shows exactly one notification in each of the three outcomes.
C23_SilentSaveShowsNothing ==
    [][ \A q \in reqs : (FormDone(q) /\ q.kind = "save") =>
          /\ q.resp.kind \in { "ok", "fail", "error" }
          /\ q.silent => UNCHANGED << toast, toastCount >>
          /\ ~q.silent =>
               NotificationShown(IF q.resp.kind = "ok" THEN "success" ELSE "danger")
      ]_vars

\* the one request of the page was an autosave and has been processed (no
\* modal was opened): no notification was shown
C23_Witness ==
    /\ formListeners # << >>
    /\ nReqs = 1 /\ reqs = {}
    /\ loadingModal.text = "" /\ redirects = << >> /\ ~feedback.shown
    /\ toastCount = 0 /\ toast = NoToast

\* the path of the URL has a segment "api" followed by another one: the URL
\* contains '/api/'
ContainsApi(url) == \E i \in DOMAIN url : url[i] = "api" /\ i < Len(url)

\* C24: the worker never answers a request whose method is not GET or whose
\* URL contains '/api/': it goes to the network and gets what the network
\* gives, never a cached response or the offline page, even when it is a
\* navigation that fails.
C24_ApiAndNonGetBypass ==
    [][ WorkerStep("fetch") =>
          LET request == lastFetch'.request IN
            (request.method # "GET" \/ ContainsApi(request.url)) =>
               /\ ~lastFetch'.handled
               /\ lastFetch'.response =
                    IF lastSw'.action = "online" THEN [ kind |-> "network" ]
                    ELSE [ kind |-> "error" ]
      ]_vars

\* a navigation to a cached URL by POST has failed and was not answered from
\* the cache
C24_Witness ==
    /\ lastSw.kind = "fetch" /\ lastSw.action = "offline"
    /\ lastFetch.request = [ method |-> "POST", url |-> << >>, mode |-> "navigate" ]
    /\ IsCached(<< >>) /\ IsCached(OFFLINE_URL)
    /\ ~lastFetch.handled
    /\ lastFetch.response = [ kind |-> "error" ]

\* C25: when the activation completes every cache whose name differs from
\* CACHE_NAME has been deleted and the cache CACHE_NAME is as it was.
C25_ActivateDeletesOldCaches ==
    [][ WorkerStep("activate") =>
          /\ \A n \in DOMAIN cacheStorage :
               n # CACHE_NAME => n \notin DOMAIN cacheStorage'
          /\ \A n \in DOMAIN cacheStorage' : n \in DOMAIN cacheStorage
          /\ CACHE_NAME \in DOMAIN cacheStorage =>
               /\ CACHE_NAME \in DOMAIN cacheStorage'
               /\ cacheStorage'[CACHE_NAME] = cacheStorage[CACHE_NAME]
      ]_vars

\* the worker is activated: the cache of the earlier version is gone and the
\* current one holds the assets
C25_Witness ==
    /\ lastSw.kind = "activate" /\ swState = "activated"
    /\ DOMAIN OldCaches # {} /\ CACHE_NAME \notin DOMAIN OldCaches
    /\ DOMAIN cacheStorage = { CACHE_NAME }
    /\ cacheStorage[CACHE_NAME] = CACHE_ASSETS

\* ---- Stop and the requests in flight
\* C26: after Stop polling no longer changes the transcript: a poll response
\* processed after stopPolling (its request was in flight at the time of
\* Stop) appends no bubble, does not invoke the new-message callback and
\* does not change `since`.
C26_NoEffectAfterStop ==
    [][ \A p \in polls :
          (PollDone(p) /\ pollInterval = 0 /\ p.timer \notin active) =>
             UNCHANGED << transcript, cbCalls, closure >>
      ]_vars

\* the stored messages of the counterpart
FromCounterpart == { i \in DOMAIN serverLog : ~serverLog[i].from_student }

\* C27: even when poll ticks overlap each counterpart message is appended to
\* the transcript at most once and the callback is invoked at most once for
\* it.
C27_AtMostOnceDespiteOverlap ==
    /\ NoDoubleRender
    /\ Len(cbCalls) <= Cardinality(FromCounterpart)

\* C28: processing a poll response keeps rendering and cursor in step:
\* whenever a received bubble has been appended for a returned message,
\* `since` has been advanced to that message's timestamp (or that of a later
\* one of the response), also when the new-message callback throws.
C28_RenderedImpliesAdvanced ==
    [][ \A p \in polls : PollDone(p) =>
          \A i \in (Len(transcript) + 1)..Len(transcript') :
             /\ transcript'[i].cls = "received"
             /\ closure'[p.timer].since >= transcript'[i].ts
      ]_vars

\* C29: isDrawing is true exactly when lastPoint is non-null, in every state
\* reachable by mouse, touch, resize and clear events; so no segment is
\* drawn from a null last point.
C29_DrawingIffLastPoint ==
    /\ [](isDrawing <=> lastPoint # << >>)
    /\ [][ SegmentDrawn =>
             /\ lastPoint # << >>
             /\ lastSegment'.from = lastPoint
             /\ Len(lastSegment'.from) = 2 /\ Len(lastSegment'.to) = 2
         ]_vars

\* a segment was drawn and the surface cleared while the stroke goes on
C29_Witness ==
    /\ lastOp.kind = "clear"
    /\ isDrawing /\ lastPoint # << >>
    /\ nSegments = 1 /\ lastSegment.to = lastPoint

\* ---- typing while a Send is in flight
\* C30: text entered into the message input while a Send is in flight is not
\* lost: when the Send succeeds only the text that was sent is removed, so an
\* input that holds another text by then is left as it is.
C30_TypedTextKept ==
    [][ \A s \in sends : (SendDone(s) /\ s.resp.kind = "ok") =>
          IF Trim(input) = s.message THEN input' = << >> ELSE input' = input
      ]_vars

====
